---- MODULE Spec2Model ----
(***************************************************************************)
(* A model of arxiv_assistant.py: the keyword search against the arXiv     *)
(* API (search_arxiv_papers), the per-paper enrichment and the merge into  *)
(* all_papers, and the digest and mail that end the run (__main__).        *)
(*                                                                         *)
(* Python values are records tagged by "py", so that None, a string, a     *)
(* list and a raised exception can be told apart by equality.  A string is *)
(* a tuple of tokens: " " is whitespace and "/" the path separator.        *)
(***************************************************************************)
EXTENDS Integers, Sequences, FiniteSets, TLC

VARIABLES
    search_terms,   \* config['search_terms']
    target_date,    \* target_date, the run's single date
    i,              \* position of the `for term in ...` loop (1-based)
    pc,             \* "search", "merge", "digest" steps of __main__; "crashed"
    papers,         \* what is left of `papers` in the inner for loop
    all_papers,     \* the dict all_papers, as its insertion-ordered items
    email_content,  \* email_content
    delivery,       \* what the mail step did
    call,           \* the search call whose result __main__ has not consumed yet
    quiet,          \* history: every response so far failed, was empty or off-date
    fetchFailed,    \* history: some keyword's fetch failed
    fresh,          \* history: the keys stored while the current term is processed
    collided        \* history: some merge replaced what an earlier term had stored

vars == <<search_terms, target_date, i, pc, papers, all_papers, email_content,
          delivery, call, quiet, fetchFailed, fresh, collided>>

---------------------------------------------------------------------------
(* Bounds of the model *)

MaxTerms == 2       \* keywords in search_terms
MaxFeedLen == 3     \* entries in one keyword's result set on the server
MaxFails == 2       \* attempts in a row the server may fail

(* config['max_results'] (MAX_RESULTS in the environment): the page size *)
max_results == 2

(* start=0 in the query string *)
RequestStart == 0

---------------------------------------------------------------------------
(* Python values *)

None == [py |-> "None"]
Str(s) == [py |-> "str", s |-> s]
List(items) == [py |-> "list", items |-> items]
Raise(exc) == [py |-> "raise", exc |-> exc]
IsRaise(v) == v.py = "raise"
Continue == [py |-> "continue"]

(* An XML element with its text (None when the element is empty);
   find() gives None for a child that is not there. *)
Element(text) == [py |-> "Element", text |-> text]

Min(a, b) == IF a < b THEN a ELSE b

RECURSIVE LStrip(_)
LStrip(s) ==
    IF s # <<>> /\ Head(s) = " " THEN LStrip(Tail(s)) ELSE s

RECURSIVE RStrip(_)
RStrip(s) ==
    IF s # <<>> /\ s[Len(s)] = " " THEN RStrip(SubSeq(s, 1, Len(s) - 1)) ELSE s

(* str.strip() *)
Strip(s) == RStrip(LStrip(s))

(* s.split('/')[-1] *)
RECURSIVE LastSegment(_)
LastSegment(s) ==
    IF s = <<>> THEN <<>>
    ELSE IF s[Len(s)] = "/" THEN <<>>
    ELSE Append(LastSegment(SubSeq(s, 1, Len(s) - 1)), s[Len(s)])

(* `.text` of what find() returned *)
text(el) == IF el = None THEN Raise("AttributeError") ELSE el.text

(* `.strip()` of a value that may be None *)
strip(v) ==
    IF IsRaise(v) THEN v
    ELSE IF v = None THEN Raise("AttributeError")
    ELSE Str(Strip(v.s))

(* A timestamp is the tokens <<day, "T", hour, "Z">> *)
TimestampFormat(s) == Len(s) = 4 /\ s[2] = "T" /\ s[4] = "Z"

(* datetime.strptime(pub_date_str, "%Y-%m-%dT%H:%M:%SZ") *)
strptime(v) ==
    IF IsRaise(v) THEN v
    ELSE IF v = None THEN Raise("TypeError")
    ELSE IF TimestampFormat(v.s) THEN [py |-> "datetime", day |-> v.s[1], hour |-> v.s[3]]
    ELSE Raise("ValueError")

(* .strftime("%Y-%m-%d") *)
strftime(dt) == Str(<<dt.day>>)

(* get_yesterday_utc, of the clock's reading *)
get_yesterday_utc(now) == strftime([py |-> "datetime", day |-> now.day - 1, hour |-> now.hour])

---------------------------------------------------------------------------
(* search_arxiv_papers: one entry *)

(* Mutant: the date test that lets every dated entry through *)
DateMatches_Any(pub_date, date) == TRUE

(* `if pub_date != target_date: continue`, the test that keeps an entry *)
DateMatches(pub_date, date) == pub_date = date

(* The first exception among values computed in order, or None *)
RECURSIVE FirstRaise(_)
FirstRaise(vs) ==
    IF vs = <<>> THEN None
    ELSE IF IsRaise(Head(vs)) THEN Head(vs)
    ELSE FirstRaise(Tail(vs))

(* [author.find('./atom:name').text.strip() for author in entry.findall('./atom:author')] *)
AuthorNames(entry) ==
    [k \in 1..Len(entry.authors) |-> strip(text(entry.authors[k].name))]

(* [category.get('term') for category in entry.findall('./atom:category')] *)
CategoryTerms(entry) ==
    [k \in 1..Len(entry.categories) |-> entry.categories[k].term]

(* comments_elem.text.strip() if comments_elem is not None else None *)
Comments(entry) ==
    IF entry.comment # None THEN strip(text(entry.comment)) ELSE None

(* The body of `for entry in entries`: Continue, the paper dict, or the
   exception the body raises. *)
NormalizeEntry(entry, date) ==
    LET parsed == strptime(text(entry.published)) IN
    IF IsRaise(parsed) THEN parsed
    ELSE
    LET pub_date == strftime(parsed) IN
    IF ~DateMatches(pub_date, date) THEN Continue
    ELSE
    LET title == strip(text(entry.title))
        summary == strip(text(entry.summary))
        url == strip(text(entry.id))
        authors == AuthorNames(entry)
        comments == Comments(entry)
        raised == FirstRaise(<<title, summary, url>> \o authors \o <<comments>>)
    IN  IF raised # None THEN raised
        ELSE [py |-> "dict",
              title |-> title,
              authors |-> authors,
              url |-> url,
              arxiv_id |-> Str(LastSegment(url.s)),
              pub_date |-> pub_date,
              summary |-> summary,
              categories |-> CategoryTerms(entry),
              comments |-> comments]

(* Mutant: the loop stops at the first entry of another date (break for
   continue), as if the feed were sorted by date. *)
RECURSIVE NormalizeAll_EarlyStop(_, _, _)
NormalizeAll_EarlyStop(entries, date, acc) ==
    IF entries = <<>> THEN List(acc)
    ELSE LET r == NormalizeEntry(Head(entries), date) IN
         IF IsRaise(r) THEN r
         ELSE IF r = Continue THEN List(acc)
         ELSE NormalizeAll_EarlyStop(Tail(entries), date, Append(acc, r))

(* The loop over the entries: the list of papers, or the exception that
   ends it. *)
RECURSIVE NormalizeAll(_, _, _)
NormalizeAll(entries, date, acc) ==
    IF entries = <<>> THEN List(acc)
    ELSE LET r == NormalizeEntry(Head(entries), date) IN
         IF IsRaise(r) THEN r
         ELSE IF r = Continue THEN NormalizeAll(Tail(entries), date, acc)
         ELSE NormalizeAll(Tail(entries), date, Append(acc, r))

---------------------------------------------------------------------------
(* search_arxiv_papers: the request and its exceptions *)

(* What requests.get / raise_for_status / ET.fromstring raise on a response *)
RequestExceptions == {"ConnectionError", "Timeout", "HTTPError"}
FailureKinds == RequestExceptions \cup {"ParseError"}

(* Mutant: the handler of ET.ParseError is missing *)
ExceptClauses_NoParseError == {"RequestException"}

(* except requests.exceptions.RequestException / except ET.ParseError *)
ExceptClauses == {"RequestException", "ParseError"}

IsInstance(exc, cls) ==
    \/ exc = cls
    \/ cls = "RequestException" /\ exc \in RequestExceptions

Caught(exc) == \E cls \in ExceptClauses : IsInstance(exc, cls)

(* The try block: the response read, parsed and its entries normalized *)
TryBlock(resp, date) ==
    IF resp.kind # "ok" THEN Raise(resp.kind)
    ELSE IF resp.entries = <<>> THEN List(<<>>)
    ELSE NormalizeAll(resp.entries, date, <<>>)

(* search_arxiv_papers(search_term, target_date, max_results), given the
   response its one request gets: a list, or an exception no clause catches *)
search_arxiv_papers(resp, date) ==
    LET r == TryBlock(resp, date) IN
    IF IsRaise(r) /\ Caught(r.exc) THEN List(<<>>) ELSE r

---------------------------------------------------------------------------
(* The arXiv API, as the program meets it *)

(* The entries the API returns for start and max_results of a result set *)
ApiPage(feed, start, size) ==
    SubSeq(feed, start + 1, Min(Len(feed), start + size))

(* A server: the keyword's result set, and how many attempts in a row fail
   (with which failure) before one succeeds. *)
Respond(server, attempt, start, size) ==
    IF attempt <= server.fails
    THEN [kind |-> server.kind, entries |-> <<>>]
    ELSE [kind |-> "ok", entries |-> ApiPage(server.feed, start, size)]

---------------------------------------------------------------------------
(* The inputs: feed entries, servers, clock readings, AI replies *)

(* The keyword lists: the two default terms in turn, to any length up to
   MaxTerms.  Which keyword is searched only selects the server's answer,
   and a server may give any answer to any keyword. *)
DefaultTerms == <<"transformer", "large language model">>
KeywordLists ==
    {[k \in 1..n |-> DefaultTerms[((k - 1) % Len(DefaultTerms)) + 1]] : n \in 0..MaxTerms}

Days == {1, 2}
PaperIds == {"2403.00001v1", "2403.00002v1"}
Clock == {[day |-> 2, hour |-> 0], [day |-> 3, hour |-> 23]}

Timestamp(day) == Element(Str(<<day, "T", 9, "Z">>))
IdUrl(id) == Element(Str(<<"http:", "/", "/", "arxiv.org", "/", "abs", "/", id, " ">>))

(* A fully populated entry of the feed *)
Entry(id, published) ==
    [published |-> published,
     title |-> Element(Str(<<" ", "t", " ">>)),
     summary |-> Element(Str(<<"s", " ">>)),
     id |-> IdUrl(id),
     authors |-> <<[name |-> Element(Str(<<"n">>))]>>,
     categories |-> <<[term |-> Str(<<"cs.CL">>)]>>,
     comment |-> None]

SoundEntries == {Entry(id, Timestamp(d)) : id \in PaperIds, d \in Days}

(* Entries whose <published> is absent, empty or not a timestamp *)
UndatedEntries ==
    {Entry("2403.00001v1", p) :
        p \in {None, Element(None), Element(Str(<<1>>)),
               Element(Str(<<1, "T", 9, "+00:00">>))}}

(* Entries with one other field absent, empty or with no children *)
PartialEntries ==
    LET e == Entry("2403.00002v1", Timestamp(1)) IN
    {[e EXCEPT !.title = None],
     [e EXCEPT !.title = Element(None)],
     [e EXCEPT !.summary = None],
     [e EXCEPT !.summary = Element(None)],
     [e EXCEPT !.authors = <<[name |-> None]>>],
     [e EXCEPT !.authors = <<[name |-> Element(None)]>>],
     [e EXCEPT !.comment = Element(None)],
     [e EXCEPT !.comment = Element(Str(<<"c", " ">>))],
     [e EXCEPT !.authors = <<>>],
     [e EXCEPT !.categories = <<>>]}

(* The entries a run meets, and the larger set a single search is tried on *)
RunEntries ==
    SoundEntries
    \cup {Entry("2403.00001v1", None)}
    \cup {[Entry("2403.00002v1", Timestamp(1)) EXCEPT !.title = None],
          [Entry("2403.00002v1", Timestamp(1)) EXCEPT !.comment = Element(Str(<<"c", " ">>))]}
AllEntries == SoundEntries \cup UndatedEntries \cup PartialEntries

(* Entries that lie beyond the first page *)
BeyondEntries == {Entry("2403.00001v1", Timestamp(d)) : d \in Days}

SeqsUpTo(S, n) == UNION {[1..k -> S] : k \in 0..n}

(* Result sets: up to a page of `entries`, or a full page followed by
   entries beyond it, MaxFeedLen entries at most. *)
Feeds(entries) ==
    SeqsUpTo(entries, Min(max_results, MaxFeedLen))
    \cup {p \o t : p \in [1..max_results -> entries],
                   t \in SeqsUpTo(BeyondEntries, MaxFeedLen - max_results) \ {<<>>}}

Reliable(feed) == [feed |-> feed, fails |-> 0, kind |-> "ok"]

(* The servers of a run: one that answers, or one whose first attempt fails *)
RunServers ==
    {Reliable(f) : f \in Feeds(RunEntries)}
    \cup {[feed |-> <<>>, fails |-> 1, kind |-> k] : k \in FailureKinds}

(* The servers a single search is tried on: any result set behind up to
   MaxFails failing attempts. *)
AllServers ==
    {Reliable(f) : f \in Feeds(AllEntries)}
    \cup {[feed |-> f, fails |-> n, kind |-> k] :
            f \in Feeds(AllEntries), n \in 1..MaxFails, k \in FailureKinds}

(* What the chat completion gives: an error, or a message content *)
AIReplies == {[kind |-> "error"], [kind |-> "ok", content |-> Str(<<"g", " ">>)]}

---------------------------------------------------------------------------
(* __main__: enrichment, merge, digest, mail *)

(* process_with_openai: the stripped message content, None on any exception *)
process_with_openai(reply) ==
    IF reply.kind = "error" THEN None
    ELSE LET r == strip(reply.content) IN IF IsRaise(r) THEN None ELSE r

(* The items of a dict are the pairs [key, value] in insertion order *)
Keys(d) == {d[k].key : k \in 1..Len(d)}

(* Mutant: a list's append, which never looks for the key *)
DictSet_Append(d, key, value) == Append(d, [key |-> key, value |-> value])

(* Mutant: d.setdefault(key, value), which keeps the value already there *)
DictSet_SetDefault(d, key, value) ==
    IF key \in Keys(d) THEN d ELSE Append(d, [key |-> key, value |-> value])

(* d[key] = value: the value replaced in place, or a new item at the end *)
DictSet(d, key, value) ==
    IF key \in Keys(d)
    THEN [k \in 1..Len(d) |-> IF d[k].key = key THEN [key |-> key, value |-> value] ELSE d[k]]
    ELSE Append(d, [key |-> key, value |-> value])

(* The paper with paper['summary_zh'] and paper['contribution'] set *)
Enriched(paper, summary_zh, contribution) ==
    [py |-> "dict",
     title |-> paper.title,
     authors |-> paper.authors,
     url |-> paper.url,
     arxiv_id |-> paper.arxiv_id,
     pub_date |-> paper.pub_date,
     summary |-> paper.summary,
     categories |-> paper.categories,
     comments |-> paper.comments,
     summary_zh |-> summary_zh,
     contribution |-> contribution]

(* Mutant: the digest always counts and lists *)
EmailContent_AlwaysListing(d, date) ==
    [kind |-> "listing", date |-> date, count |-> Len(d),
     items |-> [k \in 1..Len(d) |-> d[k].value.arxiv_id]]

(* email_content: the digest saying nothing was found, or the one that
   counts and lists the papers in the dict's order. *)
EmailContent(d, date) ==
    IF d = <<>>
    THEN [kind |-> "none_found", date |-> date]
    ELSE [kind |-> "listing", date |-> date, count |-> Len(d),
          items |-> [k \in 1..Len(d) |-> d[k].value.arxiv_id]]

NoCall == [py |-> "None"]
NoEmail == [kind |-> "unset"]

(* A response that can yield no record: a failure, no entries, or entries
   that all carry a timestamp of another day. *)
OffDate(e, date) ==
    /\ e.published # None
    /\ e.published.text # None
    /\ TimestampFormat(e.published.text.s)
    /\ e.published.text.s[1] # date.s[1]
QuietResponse(resp, date) ==
    \A k \in 1..Len(resp.entries) : OffDate(resp.entries[k], date)

Init ==
    /\ search_terms \in KeywordLists
    /\ \E now \in Clock : target_date = get_yesterday_utc(now)
    /\ i = 1
    /\ pc = "search"
    /\ papers = <<>>
    /\ all_papers = <<>>
    /\ email_content = NoEmail
    /\ delivery = "none"
    /\ call = NoCall
    /\ quiet = TRUE
    /\ fetchFailed = FALSE
    /\ fresh = {}
    /\ collided = FALSE

(* papers = search_arxiv_papers(term, target_date, config['max_results']),
   against one of `servers`; an exception it lets through ends the run. *)
Search(servers) ==
    /\ pc = "search"
    /\ i <= Len(search_terms)
    /\ \E server \in servers :
        LET resp == Respond(server, 1, RequestStart, max_results)
            result == search_arxiv_papers(resp, target_date)
        IN  /\ call' = [term |-> search_terms[i], server |-> server,
                         resp |-> resp, requests |-> 1]
            /\ papers' = IF IsRaise(result) THEN <<>> ELSE result.items
            /\ pc' = IF IsRaise(result) THEN "crashed" ELSE "merge"
            /\ quiet' = (quiet /\ QuietResponse(resp, target_date))
            /\ fetchFailed' = (fetchFailed \/ resp.kind # "ok")
    /\ UNCHANGED <<search_terms, target_date, i, all_papers, email_content,
                   delivery, fresh, collided>>

(* The body of `for paper in papers`: two AI calls, then
   all_papers[paper['arxiv_id']] = paper *)
Merge ==
    /\ pc = "merge"
    /\ papers # <<>>
    /\ \E zh \in AIReplies, co \in AIReplies :
        LET paper == Enriched(Head(papers), process_with_openai(zh),
                              process_with_openai(co))
        IN  /\ all_papers' = DictSet(all_papers, paper.arxiv_id, paper)
            /\ fresh' = fresh \cup {paper.arxiv_id}
            /\ collided' = (collided \/ paper.arxiv_id \in Keys(all_papers) \ fresh)
    /\ papers' = Tail(papers)
    /\ call' = NoCall
    /\ UNCHANGED <<search_terms, target_date, i, pc, email_content, delivery,
                   quiet, fetchFailed>>

(* The inner loop is over: the next term *)
NextTerm ==
    /\ pc = "merge"
    /\ papers = <<>>
    /\ i' = i + 1
    /\ pc' = "search"
    /\ call' = NoCall
    /\ fresh' = {}
    /\ UNCHANGED <<search_terms, target_date, papers, all_papers, email_content,
                   delivery, quiet, fetchFailed, collided>>

(* The terms are over: email_content is built *)
Digest ==
    /\ pc = "search"
    /\ i > Len(search_terms)
    /\ email_content' = EmailContent(all_papers, target_date)
    /\ pc' = "send"
    /\ UNCHANGED <<search_terms, target_date, i, papers, all_papers, delivery,
                   call, quiet, fetchFailed, fresh, collided>>

(* send_email when receivers are configured (a failure is printed), else
   the notice that no mail was sent *)
Send ==
    /\ pc = "send"
    /\ delivery' \in {"sent", "send_failed", "not_configured"}
    /\ pc' = "done"
    /\ UNCHANGED <<search_terms, target_date, i, papers, all_papers,
                   email_content, call, quiet, fetchFailed, fresh, collided>>

RunSearch == Search(RunServers)

Next == RunSearch \/ Merge \/ NextTerm \/ Digest \/ Send

Spec == Init /\ [][Next]_vars

(* One search call, over every server *)
AnySearch == Search(AllServers)

SearchInit == Init /\ Len(search_terms) = 1

SearchNext == AnySearch

SearchSpec == SearchInit /\ [][SearchNext]_vars

---------------------------------------------------------------------------
(* What the properties say about a feed, read off the feed itself *)

(* The entry carries a <published> text in the timestamp format *)
Dated(e) ==
    /\ e.published # None
    /\ e.published.text # None
    /\ TimestampFormat(e.published.text.s)

(* ... and its day is the day of `date` *)
OnDate(e, date) == Dated(e) /\ e.published.text.s[1] = date.s[1]

HasText(el) == el # None /\ el.text # None

(* Every text the paper dict is built from is there *)
Populated(e) ==
    /\ HasText(e.title)
    /\ HasText(e.summary)
    /\ HasText(e.id)
    /\ \A k \in 1..Len(e.authors) : HasText(e.authors[k].name)
    /\ e.comment # None => HasText(e.comment)

(* The identifier, the last token of the id URL before trailing blanks *)
IdToken(e) == Str(<<e.id.text.s[8]>>)

(* The identifiers of the entries of `date`, in feed order *)
IdsOnDate(entries, date) ==
    LET sel == SelectSeq(entries, LAMBDA e : OnDate(e, date))
    IN  [k \in 1..Len(sel) |-> IdToken(sel[k])]

IdsOf(ps) == [k \in 1..Len(ps) |-> ps[k].arxiv_id]

(* The search has just returned or raised *)
Called == call # NoCall
Page == call.resp.entries
Answered == Called /\ call.resp.kind = "ok"

(* d[key], for a key of the dict d *)
DictGet(d, key) == d[CHOOSE k \in 1..Len(d) : d[k].key = key].value

(* The core fields of a stored paper are those of `paper` *)
SamePaper(stored, paper) ==
    /\ stored.title = paper.title
    /\ stored.authors = paper.authors
    /\ stored.url = paper.url
    /\ stored.arxiv_id = paper.arxiv_id
    /\ stored.pub_date = paper.pub_date
    /\ stored.summary = paper.summary
    /\ stored.categories = paper.categories
    /\ stored.comments = paper.comments

---------------------------------------------------------------------------
(* C1: every record in the merged collection, and every record a search hands
   to the merge, carries the run's target date; entries of any other date are
   dropped by the search and never merged. *)
C1_MergedOnTargetDate ==
    /\ \A k \in 1..Len(all_papers) : all_papers[k].value.pub_date = target_date
    /\ \A k \in 1..Len(papers) : papers[k].pub_date = target_date
    /\ (Answered /\ pc = "merge") => Len(papers) <= Len(IdsOnDate(Page, target_date))

(* A page mixing the target date with another date was searched after an
   earlier keyword had stored records, and only part of it was kept. *)
C1_Witness ==
    /\ Answered
    /\ pc = "merge"
    /\ all_papers # <<>>
    /\ papers # <<>>
    /\ Len(papers) < Len(Page)
    /\ \E k \in 1..Len(Page) : Dated(Page[k]) /\ ~OnDate(Page[k], target_date)

(* C2: the merged collection never holds two items under one identifier, and
   every item's key is the identifier of the record it holds. *)
C2_OneRecordPerId ==
    /\ \A j, k \in 1..Len(all_papers) :
          all_papers[j].key = all_papers[k].key => j = k
    /\ \A k \in 1..Len(all_papers) :
          all_papers[k].key = all_papers[k].value.arxiv_id

(* A later keyword matched a paper an earlier one had stored, and the run
   ended with both papers in the collection. *)
C2_Witness ==
    /\ pc = "done"
    /\ collided
    /\ Len(all_papers) = Cardinality(PaperIds)

(* C3, as claimed: a merge under an identifier that an earlier keyword has
   stored leaves the collection as it was (insert-if-absent). *)
C3_InsertIfAbsent ==
    [][(pc = "merge" /\ papers # <<>>
            /\ Head(papers).arxiv_id \in Keys(all_papers) \ fresh)
        => all_papers' = all_papers]_vars

(* C3, amended: a merge stores the paper at hand, enriched in this pass,
   under its identifier, replacing in place what was there (the last match
   wins); every other item is left as it was. *)
C3_LastWriteWins ==
    [][(pc = "merge" /\ papers # <<>>) =>
        LET paper == Head(papers)
            id == paper.arxiv_id
        IN  /\ Keys(all_papers') = Keys(all_papers) \cup {id}
            /\ SamePaper(DictGet(all_papers', id), paper)
            /\ \E zh \in AIReplies, co \in AIReplies :
                 DictGet(all_papers', id) =
                     Enriched(paper, process_with_openai(zh), process_with_openai(co))
            /\ \A k \in 1..Len(all_papers) :
                 /\ all_papers'[k].key = all_papers[k].key
                 /\ all_papers[k].key # id => all_papers'[k] = all_papers[k]]_vars

(* A later keyword's paper replaced the record an earlier keyword had
   stored under the same identifier. *)
C3_Witness ==
    /\ collided
    /\ i > 1
    /\ pc = "merge"
    /\ fresh # {}

(* C4, as claimed: when the first attempts fail and one within the maximum
   succeeds (here on a result set of dated, fully populated entries), the
   search ends as if its first attempt had got that answer. *)
C4_RetryRecovers ==
    (/\ Called
     /\ call.server.fails \in 1..MaxFails
     /\ \A k \in 1..Len(call.server.feed) :
          Dated(call.server.feed[k]) /\ Populated(call.server.feed[k]))
    =>
        LET answer == Respond(call.server, call.server.fails + 1,
                              RequestStart, max_results)
            r == search_arxiv_papers(answer, target_date)
        IN  /\ pc = (IF IsRaise(r) THEN "crashed" ELSE "merge")
            /\ papers = (IF IsRaise(r) THEN <<>> ELSE r.items)

(* C4, amended: the search makes one request and never another; when that
   attempt fails, by a transport error or a payload that does not parse, the
   search returns the empty list at once, whatever a later attempt would
   have got. *)
C4_SingleAttempt ==
    Called =>
        /\ call.requests = 1
        /\ call.resp = Respond(call.server, 1, RequestStart, max_results)
        /\ call.resp.kind \in FailureKinds => (pc = "merge" /\ papers = <<>>)

(* The first attempt failed where the second would have returned an entry of
   the target date, and the search returned nothing. *)
C4_Witness ==
    /\ Called
    /\ call.server.fails = 1
    /\ call.resp.kind \in FailureKinds
    /\ IdsOnDate(ApiPage(call.server.feed, RequestStart, max_results), target_date) # <<>>
    /\ pc = "merge"
    /\ papers = <<>>

(* C5, as claimed: once a keyword's fetch has failed, that search hands no
   paper to the merge and leaves the run going, and the run is not ended by
   an exception afterwards, so every remaining keyword is processed and the
   digest is reached. *)
C5_FetchFailureIsolated ==
    /\ (Called /\ call.resp.kind \in FailureKinds) => (pc = "merge" /\ papers = <<>>)
    /\ fetchFailed => pc # "crashed"

(* An entry with no usable <published> *)
Undated(e) == ~Dated(e)

(* C6, as claimed: on a page whose entries are fully populated but for a
   missing, empty or unparseable <published> in some, the search returns
   normally with the page's entries of the target date. *)
C6_UndatedEntrySkipped ==
    (/\ Answered
     /\ \E k \in 1..Len(Page) : Undated(Page[k])
     /\ \A k \in 1..Len(Page) : Populated(Page[k]))
    => /\ pc = "merge"
       /\ IdsOf(papers) = IdsOnDate(Page, target_date)

(* C7, as claimed: with no fetch failure and fully populated entries, the
   search's output holds every entry of the whole result set that carries
   the target date, those beyond the first page too. *)
C7_AllMatchesReturned ==
    (/\ Called
     /\ call.server.fails = 0
     /\ \A k \in 1..Len(call.server.feed) :
          Dated(call.server.feed[k]) /\ Populated(call.server.feed[k]))
    => /\ pc = "merge"
       /\ IdsOf(papers) = IdsOnDate(call.server.feed, target_date)

(* C7, amended: one page is requested, at offset zero and of max_results
   entries, and no other; a search that returns from a successful response
   returns, in feed order, exactly the entries of that page that carry the
   target date. *)
C7_FirstPageOnly ==
    (Answered /\ pc = "merge") =>
        /\ call.requests = 1
        /\ Page = ApiPage(call.server.feed, 0, max_results)
        /\ IdsOf(papers) = IdsOnDate(Page, target_date)
        /\ \A k \in 1..Len(papers) : papers[k].pub_date = target_date

(* The result set was longer than the page, an entry beyond the page carried
   the target date, and the search returned the page's matches without it. *)
C7_Witness ==
    /\ Answered
    /\ pc = "merge"
    /\ Len(call.server.feed) > Len(Page)
    /\ OnDate(call.server.feed[Len(call.server.feed)], target_date)
    /\ papers # <<>>
    /\ Len(papers) < Len(IdsOnDate(call.server.feed, target_date))
    /\ \E k \in 1..Len(Page) : ~OnDate(Page[k], target_date)

(* C8, as claimed: an answer with no entries ends the keyword at once, with
   nothing for the merge and no further request, and the run is never left
   where it cannot go on to the digest and its end. *)
C8_RunReachesDigest ==
    /\ (Answered /\ Page = <<>>) =>
            (pc = "merge" /\ papers = <<>> /\ call.requests = 1)
    /\ pc = "done" \/ ENABLED Next

(* C9: while every response has been a failure, empty, or of entries of
   other dates only, the run is not ended by an exception and the
   collection stays empty; and the digest, once built, says that nothing
   was found exactly when the collection is empty. *)
C9_NothingFoundDigest ==
    /\ quiet => (pc # "crashed" /\ all_papers = <<>> /\ papers = <<>>)
    /\ pc \in {"send", "done"} =>
        /\ email_content.date = target_date
        /\ email_content.kind = "none_found" <=> all_papers = <<>>
        /\ email_content.kind \in {"none_found", "listing"}
    /\ (quiet /\ pc \in {"send", "done"}) =>
            email_content = [kind |-> "none_found", date |-> target_date]

(* A run over a full keyword list, one fetch failed, no record found, ended
   with the digest that says so. *)
C9_Witness ==
    /\ pc = "done"
    /\ quiet
    /\ fetchFailed
    /\ Len(search_terms) = MaxTerms
    /\ all_papers = <<>>
    /\ email_content.kind = "none_found"

(* C10, as claimed: on a page whose entries all carry a timestamp, whatever
   else is absent or empty in them, the search returns normally with one
   record for each entry of the target date. *)
C10_PartialEntryKept ==
    (Answered /\ \A k \in 1..Len(Page) : Dated(Page[k]))
    => /\ pc = "merge"
       /\ Len(papers) = Len(IdsOnDate(Page, target_date))

====
